---- MODULE Spec2Model ----
(***************************************************************************)
(* Model of src/src/client.js (MistralClient): the retrying transport      *)
(* (_fetchWithRetry, _delay), the request layer (_request and the public   *)
(* operations) and the event-stream decoding loop of chatStream.           *)
(***************************************************************************)
EXTENDS Integers, Sequences, FiniteSets, TLC

(***************************************************************************)
(* Program constants.                                                      *)
(***************************************************************************)
RETRY_STATUS_CODES == {429, 500, 502, 503, 504}

\* Default value of the parameter `retries` (_fetchWithRetry and _request).
DefaultRetries == 3

\* Default value of the parameter `retryDelay` of _fetchWithRetry.
DefaultRetryDelay == 500

\* The factor of `retryDelay * 2` in both recursive calls.
BackoffMultiplier == 2

(***************************************************************************)
(* Bounds of the model.                                                    *)
(***************************************************************************)
\* Largest retry budget a direct call of _fetchWithRetry is given.
MaxRetries == 3

\* Largest number of lines of a generated byte stream.
MaxFrames == 2

\* Largest number of chunks the byte stream is delivered in.
MaxChunks == 3

\* Bounds of the runs of two concurrent calls: the largest retry budget of a
\* call, and the most chunks a byte stream is delivered in.
ConcRetries == 1
ConcChunks == 2

(***************************************************************************)
(* Inputs.                                                                 *)
(***************************************************************************)
\* Statuses the remote endpoint answers with: success, application errors
\* and every retriable status.
Statuses == {200, 204, 400, 404} \cup RETRY_STATUS_CODES

\* What response.json() and the iteration of its value can tell apart in a
\* response body: text that is no JSON; JSON that is not iterable (object,
\* number, boolean, null); JSON that is iterable and empty ([] or "");
\* JSON that is iterable and not empty.
Bodies == {"notJson", "jsonObject", "jsonEmptyIterable", "jsonIterable"}

\* Retry budgets of a direct call, a negative one included.
InitialRetries == {-1} \cup (0 .. MaxRetries)

\* Initial delays (ms) of a direct call.
InitialDelays == {100, DefaultRetryDelay}

\* Entry points: a direct call of _fetchWithRetry(url, options, N, d), or a
\* public operation, which reaches it through _request.
PublicOps == {"listModels", "chat", "embeddings", "chatStream"}

\* _request(method, path, request, retries) itself, and the operations that
\* call it without the fourth argument.
RequestEntries == {"_request"} \cup PublicOps

Entries == {"_fetchWithRetry"} \cup RequestEntries

NoOutcome == [kind |-> "none", id |-> 0, status |-> 0, body |-> "none"]

VARIABLES
  entry,        \* the operation the caller invoked
  maxRetries,   \* `retries` of the outermost _fetchWithRetry call
  initialDelay, \* `retryDelay` of the outermost _fetchWithRetry call
  retries,      \* `retries` of the current (innermost) _fetchWithRetry call
  retryDelay,   \* `retryDelay` of the current _fetchWithRetry call
  frames,       \* the calls that made a recursive call, outermost first
  pc,           \* "fetching" | "delayTry" | "delayCatch" | "returned" | "thrown"
  attempts,     \* number of fetch(url, options) calls settled so far
  log,          \* per attempt: 0 if fetch threw, else the response's status
  waits,        \* the ms arguments of the _delay calls, in order
  last,         \* outcome of the latest attempt
  result,       \* what _fetchWithRetry returned or threw
  callerPc,     \* "pending" | "iterating" | "resolved" | "rejected"
  callerResult  \* what the public operation delivered to its caller

tvars == <<entry, maxRetries, initialDelay, retries, retryDelay, frames, pc,
           attempts, log, waits, last, result, callerPc, callerResult>>

VARIABLES
  content,      \* the whole byte stream the endpoint sends
  pending,      \* its bytes not yet delivered as a chunk
  chunksRead,   \* chunks delivered so far
  chunkLines,   \* lines of the current chunk the inner loop has not visited
  events,       \* the values the generator has yielded, in order
  dpc,          \* "idle" | "awaiting" | "yielded" | "done" | "failed"
  sentinelAt    \* Len(events) when a '[DONE]' payload was first seen, else -1

dvars == <<content, pending, chunksRead, chunkLines, events, dpc, sentinelAt>>

VARIABLES
  abort,          \* what had been issued when options.signal was aborted
  requestRetries, \* `retries` of the _request call (of the direct call, if none)
  calls,          \* the state of each of two concurrent calls on one client
  decoderBuf      \* bytes this.textDecoder holds back for its next decode

\* The signal has not been aborted.
NoAbort == [issued |-> -1, waits |-> -1]

ovars == <<abort, requestRetries, calls, decoderBuf>>

vars == <<tvars, dvars, ovars>>

(***************************************************************************)
(* _fetchWithRetry (client.js 22-40) and _delay (42-44).                   *)
(***************************************************************************)
\* response.ok of the fetch API: the status is in the range 200-299.
ResponseOk(status) == status >= 200 /\ status <= 299

\* Variants of line 26 that a slip would produce: the budget test off by one,
\* and a test that lets only a successful response through.
ReturnsResponse_OffByOne(status, r) ==
  ResponseOk(status) \/ status \notin RETRY_STATUS_CODES \/ r <= 1

ReturnsResponse_OkOnly(status, r) == ResponseOk(status) \/ r <= 0

\* A variant of line 26 that goes on retrying a retriable status whatever
\* retries are left.
ReturnsResponse_IgnoresBudget(status, r) ==
  ResponseOk(status) \/ status \notin RETRY_STATUS_CODES

\* Line 26: the response is returned as it is.
ReturnsResponse(status, r) ==
  ResponseOk(status) \/ status \notin RETRY_STATUS_CODES \/ r <= 0

\* A variant of line 33 that retries once more than the budget allows.
RethrowsError_OffByOne(r) == r < 0

\* Line 33: the caught error is thrown again.
RethrowsError(r) == r <= 0

\* The log entry of an attempt whose fetch threw.
Threw == 0

\* A variant of line 67 that hands on one retry less than it was given.
RetriesOfRequest_OneLess(r) == r - 1

\* Line 67: _request hands its own `retries` to _fetchWithRetry, and no
\* delay, so that the delay is the default one.
RetriesOfRequest(r) == r

TransportInit ==
  /\ entry \in Entries
  /\ IF entry = "_fetchWithRetry"
       THEN /\ maxRetries \in InitialRetries
            /\ initialDelay \in InitialDelays
            /\ requestRetries = maxRetries
       ELSE /\ requestRetries \in (IF entry = "_request" THEN InitialRetries
                                   ELSE {DefaultRetries})
            /\ maxRetries = RetriesOfRequest(requestRetries)
            /\ initialDelay = DefaultRetryDelay
  /\ retries = maxRetries
  /\ retryDelay = initialDelay
  /\ frames = <<>>
  /\ pc = "fetching"
  /\ attempts = 0
  /\ log = <<>>
  /\ waits = <<>>
  /\ last = NoOutcome
  /\ result = NoOutcome
  /\ callerPc = "pending"
  /\ callerResult = NoOutcome

\* No signal is aborted, and the one call is alone on its client.
NotAborted == abort = NoAbort /\ calls = <<>> /\ decoderBuf = <<>>

\* The decoding loop is not running.
DecoderIdle ==
  /\ content = <<>>
  /\ pending = <<>>
  /\ chunksRead = 0
  /\ chunkLines = <<>>
  /\ events = <<>>
  /\ dpc = "idle"
  /\ sentinelAt = -1

\* `await fetch(url, options)` resolves with a response (lines 24-31).  A
\* fetch whose options.signal is aborted does not resolve: it rejects.
FetchResolves ==
  /\ pc = "fetching"
  /\ abort = NoAbort
  /\ \E status \in Statuses, body \in Bodies :
       LET response == [kind |-> "response", id |-> attempts + 1,
                        status |-> status, body |-> body]
       IN /\ attempts' = attempts + 1
          /\ last' = response
          /\ log' = Append(log, status)
          /\ IF ReturnsResponse(status, retries)
               THEN /\ pc' = "returned"
                    /\ result' = response
                    /\ waits' = waits
               ELSE /\ pc' = "delayTry"
                    /\ result' = result
                    /\ waits' = Append(waits, retryDelay)
  /\ UNCHANGED <<entry, maxRetries, initialDelay, retries, retryDelay, frames,
                 callerPc, callerResult, dvars, ovars>>

\* A variant of line 31 that awaits the recursive call inside the try block
\* (`return await this._fetchWithRetry(...)`).
CatchesInnerRejection_Awaited(site) == site = "try"

\* Lines 31 and 38: `return this._fetchWithRetry(...)` hands the promise of
\* the recursive call back without awaiting it.  The call that made it has
\* left its try block (line 31) or was never in one (line 38, in the catch
\* block) when that promise settles, so its catch block does not see the
\* rejection, which passes on to its own caller.
CatchesInnerRejection(site) == FALSE

\* The innermost of the calls `fs` whose catch block sees a rejection of the
\* call it made and does not throw it again (line 33), or 0 if there is none.
RECURSIVE Catcher(_)
Catcher(fs) ==
  IF fs = <<>> THEN 0
  ELSE LET f == fs[Len(fs)]
       IN IF CatchesInnerRejection(f.site) /\ ~RethrowsError(f.retries)
            THEN Len(fs)
            ELSE Catcher(SubSeq(fs, 1, Len(fs) - 1))

\* A variant of the catch block that makes the recursive call at once.
FetchRejects_NoDelay ==
  /\ pc = "fetching"
  /\ LET error == [kind |-> "error", id |-> attempts + 1,
                   status |-> 0, body |-> "none"]
     IN /\ attempts' = attempts + 1
        /\ last' = error
        /\ log' = Append(log, Threw)
        /\ waits' = waits
        /\ IF RethrowsError(retries)
             THEN /\ pc' = "thrown"
                  /\ result' = error
                  /\ UNCHANGED <<retries, retryDelay, frames>>
             ELSE /\ pc' = "fetching"
                  /\ result' = result
                  /\ retries' = retries - 1
                  /\ retryDelay' = retryDelay * BackoffMultiplier
                  /\ frames' = Append(frames, [retries |-> retries,
                                               retryDelay |-> retryDelay,
                                               site |-> "catch"])
  /\ UNCHANGED <<entry, maxRetries, initialDelay,
                 callerPc, callerResult, dvars, ovars>>

\* `await fetch(url, options)` rejects: the catch block (lines 32-39).  An
\* error thrown again (line 33) rejects the promise of this call, and with it
\* the promise of every call that returned it.
FetchRejects ==
  /\ pc = "fetching"
  /\ LET error == [kind |-> "error", id |-> attempts + 1,
                   status |-> 0, body |-> "none"]
         c == Catcher(frames)
     IN /\ attempts' = attempts + 1
        /\ last' = error
        /\ log' = Append(log, Threw)
        /\ IF ~RethrowsError(retries)
             THEN /\ pc' = "delayCatch"
                  /\ result' = result
                  /\ waits' = Append(waits, retryDelay)
                  /\ UNCHANGED <<retries, retryDelay, frames>>
             ELSE IF c = 0
               THEN /\ pc' = "thrown"
                    /\ result' = error
                    /\ waits' = waits
                    /\ UNCHANGED <<retries, retryDelay, frames>>
               ELSE /\ pc' = "delayCatch"
                    /\ result' = result
                    /\ retries' = frames[c].retries
                    /\ retryDelay' = frames[c].retryDelay
                    /\ waits' = Append(waits, frames[c].retryDelay)
                    /\ frames' = SubSeq(frames, 1, c - 1)
  /\ UNCHANGED <<entry, maxRetries, initialDelay,
                 callerPc, callerResult, dvars, ovars>>

\* Variants of the two recursive calls that pass the delay on unchanged.
DelayResolvesTry_NoBackoff ==
  /\ pc = "delayTry"
  /\ retries' = retries - 1
  /\ retryDelay' = retryDelay
  /\ frames' = Append(frames, [retries |-> retries, retryDelay |-> retryDelay,
                               site |-> "try"])
  /\ pc' = "fetching"
  /\ UNCHANGED <<entry, maxRetries, initialDelay, attempts, log, waits,
                 last, result, callerPc, callerResult, dvars, ovars>>

DelayResolvesCatch_NoBackoff ==
  /\ pc = "delayCatch"
  /\ retries' = retries - 1
  /\ retryDelay' = retryDelay
  /\ frames' = Append(frames, [retries |-> retries, retryDelay |-> retryDelay,
                               site |-> "catch"])
  /\ pc' = "fetching"
  /\ UNCHANGED <<entry, maxRetries, initialDelay, attempts, log, waits,
                 last, result, callerPc, callerResult, dvars, ovars>>

\* The timer of `await this._delay(retryDelay)` of the try block fires and
\* the recursive call of line 31 starts its attempt.  Its promise is returned
\* without `await`, so its rejection never re-enters this call's catch block.
DelayResolvesTry ==
  /\ pc = "delayTry"
  /\ retries' = retries - 1
  /\ retryDelay' = retryDelay * BackoffMultiplier
  /\ frames' = Append(frames, [retries |-> retries, retryDelay |-> retryDelay,
                               site |-> "try"])
  /\ pc' = "fetching"
  /\ UNCHANGED <<entry, maxRetries, initialDelay, attempts, log, waits,
                 last, result, callerPc, callerResult, dvars, ovars>>

\* The timer of `await this._delay(retryDelay)` of the catch block fires and
\* the recursive call of line 38 starts its attempt.
DelayResolvesCatch ==
  /\ pc = "delayCatch"
  /\ retries' = retries - 1
  /\ retryDelay' = retryDelay * BackoffMultiplier
  /\ frames' = Append(frames, [retries |-> retries, retryDelay |-> retryDelay,
                               site |-> "catch"])
  /\ pc' = "fetching"
  /\ UNCHANGED <<entry, maxRetries, initialDelay, attempts, log, waits,
                 last, result, callerPc, callerResult, dvars, ovars>>

\* fetch calls issued so far: the settled ones and the one in flight.
IssuedAttempts == attempts + (IF pc = "fetching" THEN 1 ELSE 0)

\* The caller of _fetchWithRetry aborts the signal it passed in `options`
\* while an attempt is in flight or a backoff wait is pending.  The code never
\* reads the signal (lines 22-44): fetch alone reacts to it, by rejecting.
\* _request builds its own options without a signal (lines 61-65), so only a
\* direct call can be aborted.
Abort ==
  /\ entry = "_fetchWithRetry"
  /\ abort = NoAbort
  /\ pc \in {"fetching", "delayTry", "delayCatch"}
  /\ abort' = [issued |-> IssuedAttempts, waits |-> Len(waits)]
  /\ UNCHANGED <<tvars, dvars, requestRetries, calls, decoderBuf>>

(***************************************************************************)
(* _request (54-69) and the public operations (110-219).                   *)
(***************************************************************************)
\* The continuation of `await this._fetchWithRetry(url, options, retries)`
\* in _request, then `return response.json()`, then the operation's own
\* continuation of `await this._request(...)`.
RequestResumes ==
  /\ entry \in RequestEntries
  /\ callerPc = "pending"
  /\ pc \in {"returned", "thrown"}
  /\ IF pc = "thrown"
       THEN /\ callerPc' = "rejected"
            /\ callerResult' = result
       ELSE IF result.body = "notJson"
         THEN /\ callerPc' = "rejected"
              /\ callerResult' = [kind |-> "SyntaxError", id |-> result.id,
                                  status |-> result.status, body |-> result.body]
         ELSE IF entry = "chatStream"
           THEN /\ callerPc' = "iterating"
                /\ callerResult' = [kind |-> "json", id |-> result.id,
                                    status |-> result.status, body |-> result.body]
           ELSE /\ callerPc' = "resolved"
                /\ callerResult' = [kind |-> "json", id |-> result.id,
                                    status |-> result.status, body |-> result.body]
  /\ UNCHANGED <<entry, maxRetries, initialDelay, retries, retryDelay, frames,
                 pc, attempts, log, waits, last, result, dvars, ovars>>

\* chatStream: `for await (const chunk of response)` over the value that
\* _request returned, which is the parsed JSON (lines 181-186).
StreamIterates ==
  /\ entry = "chatStream"
  /\ callerPc = "iterating"
  /\ IF callerResult.body = "jsonEmptyIterable"
       THEN /\ callerPc' = "resolved"
            /\ callerResult' = [callerResult EXCEPT !.kind = "noEvents"]
       ELSE /\ callerPc' = "rejected"
            /\ callerResult' = [callerResult EXCEPT !.kind = "TypeError"]
  /\ UNCHANGED <<entry, maxRetries, initialDelay, retries, retryDelay, frames,
                 pc, attempts, log, waits, last, result, dvars, ovars>>

(***************************************************************************)
(* Text of the event stream.  A byte and a character are one-character     *)
(* strings; the two bytes "C3" "A9" are the UTF-8 encoding of U+00E9.      *)
(***************************************************************************)
NL == "\n"
SP == " "
QUOTE == "\""
Digits == {"1", "2", "3"}

\* TextDecoder.decode(chunk) without {stream: true} (line 186): every call
\* decodes its chunk on its own, so a multi-byte character cut by the chunk
\* boundary becomes U+FFFD on both sides.
RECURSIVE TextDecode(_)
TextDecode(bytes) ==
  IF bytes = <<>> THEN <<>>
  ELSE IF Head(bytes) = "C3"
    THEN IF Len(bytes) >= 2 /\ bytes[2] = "A9"
           THEN <<"U+00E9">> \o TextDecode(Tail(Tail(bytes)))
           ELSE <<"U+FFFD">> \o TextDecode(Tail(bytes))
    ELSE IF Head(bytes) = "A9"
      THEN <<"U+FFFD">> \o TextDecode(Tail(bytes))
      ELSE <<Head(bytes)>> \o TextDecode(Tail(bytes))

\* Index of the first NL of text at or after i, or 0.
RECURSIVE IndexOfNL(_, _)
IndexOfNL(text, i) ==
  IF i > Len(text) THEN 0
  ELSE IF text[i] = NL THEN i ELSE IndexOfNL(text, i + 1)

\* chunkString.split('\n') (line 188): n newlines give n+1 lines.
RECURSIVE Split(_)
Split(text) ==
  LET n == IndexOfNL(text, 1)
  IN IF n = 0 THEN <<text>>
     ELSE <<SubSeq(text, 1, n - 1)>> \o Split(SubSeq(text, n + 1, Len(text)))

DataPrefix == <<"d", "a", "t", "a", ":">>

\* chunkLine.startsWith('data:') (line 192).
StartsWith(line, prefix) ==
  Len(line) >= Len(prefix) /\ SubSeq(line, 1, Len(prefix)) = prefix

\* chunkLine.substring(start): the characters from index start (0-based) on.
Substring(line, start) == SubSeq(line, start + 1, Len(line))

\* The index substring is called with (line 193).
PayloadStart == 6

RECURSIVE TrimStart(_)
TrimStart(text) ==
  IF text # <<>> /\ Head(text) = SP THEN TrimStart(Tail(text)) ELSE text

RECURSIVE TrimEnd(_)
TrimEnd(text) ==
  IF text # <<>> /\ text[Len(text)] = SP
    THEN TrimEnd(SubSeq(text, 1, Len(text) - 1)) ELSE text

\* String.prototype.trim (line 193).
Trim(text) == TrimEnd(TrimStart(text))

\* The sentinel of line 194.
DONE == <<"[", "D", "O", "N", "E", "]">>

(***************************************************************************)
(* JSON.parse (line 195) on the characters above: numbers of the digits    *)
(* 1-3 with an optional exponent, strings without escapes, arrays and      *)
(* objects of at most one member (the alphabet has no comma), white space  *)
(* between tokens.  A parser returns the index after what it read, or 0.   *)
(***************************************************************************)
RECURSIVE SkipWs(_, _)
SkipWs(s, i) == IF i <= Len(s) /\ s[i] = SP THEN SkipWs(s, i + 1) ELSE i

RECURSIVE SkipDigits(_, _)
SkipDigits(s, i) ==
  IF i <= Len(s) /\ s[i] \in Digits THEN SkipDigits(s, i + 1) ELSE i

ParseNumber(s, i) ==
  LET j == SkipDigits(s, i)
  IN IF j <= Len(s) /\ s[j] = "E"
       THEN LET k == SkipDigits(s, j + 1) IN IF k > j + 1 THEN k ELSE 0
       ELSE j

RECURSIVE ClosingQuote(_, _)
ClosingQuote(s, i) ==
  IF i > Len(s) THEN 0
  ELSE IF s[i] = QUOTE THEN i + 1 ELSE ClosingQuote(s, i + 1)

ParseString(s, i) == ClosingQuote(s, i + 1)

Is(s, i, c) == i >= 1 /\ i <= Len(s) /\ s[i] = c

RECURSIVE ParseValue(_, _)
ParseArray(s, i) ==
  LET j == SkipWs(s, i + 1)
  IN IF Is(s, j, "]") THEN j + 1
     ELSE LET k == ParseValue(s, j)
              m == SkipWs(s, k)
          IN IF k # 0 /\ Is(s, m, "]") THEN m + 1 ELSE 0

ParseObject(s, i) ==
  LET j == SkipWs(s, i + 1)
  IN IF Is(s, j, "}") THEN j + 1
     ELSE IF ~Is(s, j, QUOTE) THEN 0
     ELSE LET k == ParseString(s, j)
              m == SkipWs(s, k)
          IN IF k = 0 \/ ~Is(s, m, ":") THEN 0
             ELSE LET v == ParseValue(s, SkipWs(s, m + 1))
                      n == SkipWs(s, v)
                  IN IF v # 0 /\ Is(s, n, "}") THEN n + 1 ELSE 0

ParseValue(s, i) ==
  IF i > Len(s) THEN 0
  ELSE IF s[i] \in Digits THEN ParseNumber(s, i)
  ELSE IF s[i] = QUOTE THEN ParseString(s, i)
  ELSE IF s[i] = "[" THEN ParseArray(s, i)
  ELSE IF s[i] = "{" THEN ParseObject(s, i)
  ELSE 0

\* JSON.parse(s) returns a value (it throws a SyntaxError otherwise).
JSONParses(s) ==
  LET j == ParseValue(s, SkipWs(s, 1))
  IN j # 0 /\ SkipWs(s, j) = Len(s) + 1

\* The value JSON.parse(s) returns, written without insignificant white
\* space: two texts over these characters give the same value exactly when
\* these writings are equal.
RECURSIVE JSONValueFrom(_, _)
JSONValueFrom(s, inString) ==
  IF s = <<>> THEN <<>>
  ELSE IF Head(s) = QUOTE
    THEN <<QUOTE>> \o JSONValueFrom(Tail(s), ~inString)
    ELSE IF Head(s) = SP /\ ~inString
      THEN JSONValueFrom(Tail(s), inString)
      ELSE <<Head(s)>> \o JSONValueFrom(Tail(s), inString)

JSONValue(s) == JSONValueFrom(s, FALSE)

(***************************************************************************)
(* The decoding loop of chatStream (lines 185-199).                        *)
(***************************************************************************)
\* Line 193: chunkLine.substring(6).trim(), the text handed to JSON.parse.
ChunkData(chunkLine) == Trim(Substring(chunkLine, PayloadStart))

\* A variant of the loop body that swallows a SyntaxError and goes on.
LineOutcome_SkipsMalformed(chunkLine) ==
  IF ~StartsWith(chunkLine, DataPrefix)
    THEN [kind |-> "skip", value |-> <<>>]
    ELSE LET chunkData == ChunkData(chunkLine)
         IN IF chunkData = DONE
              THEN [kind |-> "sentinel", value |-> <<>>]
              ELSE IF JSONParses(chunkData)
                THEN [kind |-> "yield", value |-> JSONValue(chunkData)]
                ELSE [kind |-> "skip", value |-> <<>>]

\* What the body of the inner loop does with one line (lines 192-197):
\* nothing, nothing because of the sentinel, a yield, or a SyntaxError.
LineOutcome(chunkLine) ==
  IF ~StartsWith(chunkLine, DataPrefix)
    THEN [kind |-> "skip", value |-> <<>>]
    ELSE LET chunkData == ChunkData(chunkLine)
         IN IF chunkData = DONE
              THEN [kind |-> "sentinel", value |-> <<>>]
              ELSE IF JSONParses(chunkData)
                THEN [kind |-> "yield", value |-> JSONValue(chunkData)]
                ELSE [kind |-> "throw", value |-> <<>>]

\* The inner loop from its current line up to its next suspension: a yield,
\* a throw, or the end of the chunk's lines.  sawDone: it passed a sentinel.
RECURSIVE RunLines(_, _)
RunLines(lines, sawDone) ==
  IF lines = <<>>
    THEN [kind |-> "exhausted", value |-> <<>>, rest |-> <<>>, sawDone |-> sawDone]
    ELSE LET o == LineOutcome(Head(lines))
         IN IF o.kind = "skip" THEN RunLines(Tail(lines), sawDone)
            ELSE IF o.kind = "sentinel" THEN RunLines(Tail(lines), TRUE)
            ELSE [kind |-> o.kind, value |-> o.value,
                  rest |-> Tail(lines), sawDone |-> sawDone]

\* A variant of the yield that hands the new event over ahead of the ones
\* already emitted.
Resume_Reorders(lines) ==
  LET r == RunLines(lines, FALSE)
  IN /\ sentinelAt' = IF r.sawDone /\ sentinelAt = -1 THEN Len(events)
                      ELSE sentinelAt
     /\ IF r.kind = "yield"
          THEN /\ events' = <<r.value>> \o events
               /\ chunkLines' = r.rest
               /\ dpc' = "yielded"
          ELSE /\ events' = events
               /\ chunkLines' = <<>>
               /\ dpc' = IF r.kind = "throw" THEN "failed" ELSE "awaiting"

\* The generator runs the inner loop over `lines` until it suspends.
Resume(lines) ==
  LET r == RunLines(lines, FALSE)
  IN /\ sentinelAt' = IF r.sawDone /\ sentinelAt = -1 THEN Len(events)
                      ELSE sentinelAt
     /\ IF r.kind = "yield"
          THEN /\ events' = Append(events, r.value)
               /\ chunkLines' = r.rest
               /\ dpc' = "yielded"
          ELSE /\ events' = events
               /\ chunkLines' = <<>>
               /\ dpc' = IF r.kind = "throw" THEN "failed" ELSE "awaiting"

\* `for await (const chunk of response)` receives the next chunk, of any
\* size; it is decoded and split, and the inner loop starts (lines 185-190).
ChunkArrives ==
  /\ dpc = "awaiting"
  /\ pending # <<>>
  /\ \E n \in 1 .. Len(pending) :
       /\ chunksRead + 1 < MaxChunks \/ n = Len(pending)
       /\ LET chunk == SubSeq(pending, 1, n)
              chunkString == TextDecode(chunk)
          IN Resume(Split(chunkString))
       /\ pending' = SubSeq(pending, n + 1, Len(pending))
  /\ chunksRead' = chunksRead + 1
  /\ UNCHANGED <<content, tvars, ovars>>

\* The consumer asks for the next event: the generator continues after its
\* yield (line 195) with the lines left of the current chunk.
NextRequested ==
  /\ dpc = "yielded"
  /\ Resume(chunkLines)
  /\ UNCHANGED <<content, pending, chunksRead, tvars, ovars>>

\* The byte stream ends: the outer loop ends and the generator returns.
StreamCloses ==
  /\ dpc = "awaiting"
  /\ pending = <<>>
  /\ dpc' = "done"
  /\ UNCHANGED <<content, pending, chunksRead, chunkLines, events,
                 sentinelAt, tvars, ovars>>

\* The decoding of a byte stream that arrives as a single chunk: the events
\* yielded to a consumer that reads to the end, and how the generator ends.
RECURSIVE CollectLines(_)
CollectLines(lines) ==
  LET r == RunLines(lines, FALSE)
  IN IF r.kind = "yield"
       THEN LET c == CollectLines(r.rest)
            IN [events |-> <<r.value>> \o c.events, ending |-> c.ending]
       ELSE [events |-> <<>>,
             ending |-> IF r.kind = "throw" THEN "failed" ELSE "done"]

DecodeSingle(stream) ==
  IF stream = <<>> THEN [events |-> <<>>, ending |-> "done"]
  ELSE CollectLines(Split(TextDecode(stream)))

\* Lines the generated byte streams are made of.
FrameLines ==
  { <<"d", "a", "t", "a", ":", " ", "1">>,
    <<"d", "a", "t", "a", ":", " ", "{", QUOTE, "a", QUOTE, ":", "2", "}">>,
    <<"d", "a", "t", "a", ":", " ", "[", "D", "O", "N", "E", "]">>,
    <<>>,
    <<"d", "a", "t", "a", ":", "3">>,
    <<"d", "a", "t", "a", ":", " ", "{">>,
    <<":", "x">>,
    <<"d", "a", "t", "a", ":", " ", " ", "1", "2", " ">>,
    <<"d", "a", "t", "a", ":", " ", QUOTE, "C3", "A9", QUOTE>> }

\* The byte streams of exactly n lines, each ended by a newline.
RECURSIVE StreamsOf(_)
StreamsOf(n) ==
  IF n = 0 THEN {<<>>}
  ELSE {l \o <<NL>> \o rest : l \in FrameLines, rest \in StreamsOf(n - 1)}

\* data: {"a":1}, blank, data: {"a":2}, blank, data: [DONE].
ScenarioStream ==
  <<"d", "a", "t", "a", ":", " ", "{", QUOTE, "a", QUOTE, ":", "1", "}", NL,
    NL,
    "d", "a", "t", "a", ":", " ", "{", QUOTE, "a", QUOTE, ":", "2", "}", NL,
    NL,
    "d", "a", "t", "a", ":", " ", "[", "D", "O", "N", "E", "]", NL>>

Streams == UNION {StreamsOf(n) : n \in 0 .. MaxFrames} \cup {ScenarioStream}

\* The transport has delivered its response and takes no further step.
TransportIdle ==
  /\ entry = "chatStream"
  /\ requestRetries = DefaultRetries
  /\ maxRetries = DefaultRetries
  /\ initialDelay = DefaultRetryDelay
  /\ retries = maxRetries
  /\ retryDelay = initialDelay
  /\ frames = <<>>
  /\ pc = "returned"
  /\ attempts = 0
  /\ log = <<>>
  /\ waits = <<>>
  /\ last = NoOutcome
  /\ result = NoOutcome
  /\ callerPc = "iterating"
  /\ callerResult = NoOutcome

\* The loop of lines 185-199 starts on an iterable of byte chunks.
DecoderInit ==
  /\ content \in Streams
  /\ pending = content
  /\ chunksRead = 0
  /\ chunkLines = <<>>
  /\ events = <<>>
  /\ dpc = "awaiting"
  /\ sentinelAt = -1
  /\ TransportIdle
  /\ NotAborted

DecoderNext ==
  \/ ChunkArrives
  \/ NextRequested
  \/ StreamCloses

SpecDecoder == DecoderInit /\ [][DecoderNext]_vars

(***************************************************************************)
(* Two concurrent calls on one client.  The parameters and locals of an    *)
(* async call are its own; the client's fields are endpoint, apiKey and    *)
(* textDecoder (lines 15-20), of which only textDecoder has state.  Calls  *)
(* interleave at their awaits: a step below is what one call does between  *)
(* two of its awaits.                                                      *)
(***************************************************************************)
Calls == {1, 2}

\* Outcomes of a fetch attempt: it threw, or answered with this status.
ConcOutcomes == {Threw, 200, 404, 503}

ConcDelays == {100, DefaultRetryDelay}

\* The byte streams: the line data: "e-acute", and the two lines data: 1 and
\* data: 2, each line ended by a newline.
ConcStreams ==
  { <<"d", "a", "t", "a", ":", " ", QUOTE, "C3", "A9", QUOTE, NL>>,
    <<"d", "a", "t", "a", ":", " ", "1", NL,
      "d", "a", "t", "a", ":", " ", "2", NL>> }

\* _fetchWithRetry(url, options, r, d) is called (line 22).
RetryCall(r, d) ==
  [kind |-> "retry", maxRetries |-> r, initialDelay |-> d, retries |-> r,
   retryDelay |-> d, pc |-> "fetching", attempts |-> 0, log |-> <<>>,
   waits |-> <<>>]

\* The loop of lines 185-199 starts on the byte stream `stream`.
DecodeCall(stream) ==
  [kind |-> "decode", content |-> stream, pending |-> stream,
   chunks |-> <<>>, chunkLines |-> <<>>, events |-> <<>>, dpc |-> "awaiting"]

\* The fetch of a call settles with outcome o (lines 24-27 and 32-35).
Settles(call, o) ==
  LET ends == IF o = Threw THEN RethrowsError(call.retries)
              ELSE ReturnsResponse(o, call.retries)
  IN [call EXCEPT
        !.attempts = @ + 1,
        !.log = Append(@, o),
        !.waits = IF ends THEN @ ELSE Append(@, call.retryDelay),
        !.pc = IF o = Threw
                 THEN (IF ends THEN "thrown" ELSE "delayCatch")
                 ELSE (IF ends THEN "returned" ELSE "delayTry")]

\* The timer of a call fires and it makes its recursive call (lines 29-31
\* and 37-38).
TimerFires(call) ==
  [call EXCEPT !.retries = @ - 1,
               !.retryDelay = @ * BackoffMultiplier,
               !.pc = "fetching"]

\* A variant of line 186 that decodes with {stream: true}: the decoder holds
\* back the lead byte of a character cut by the end of the chunk.
Retained_Streaming(bytes) ==
  IF bytes # <<>> /\ bytes[Len(bytes)] = "C3" THEN <<"C3">> ELSE <<>>

\* Line 186: the bytes this.textDecoder holds back after decode(chunk).
\* Without {stream: true} it flushes: it holds back nothing.
Retained(bytes) == <<>>

\* this.textDecoder.decode(chunk) with `buf` held back from its last call.
DecoderText(buf, chunk) ==
  LET bytes == buf \o chunk
  IN TextDecode(SubSeq(bytes, 1, Len(bytes) - Len(Retained(bytes))))

\* The generator of a call runs its inner loop over `lines` until it
\* suspends (lines 190-197).
ResumeCall(call, lines) ==
  LET r == RunLines(lines, FALSE)
  IN IF r.kind = "yield"
       THEN [call EXCEPT !.events = Append(@, r.value),
                         !.chunkLines = r.rest,
                         !.dpc = "yielded"]
       ELSE [call EXCEPT !.chunkLines = <<>>,
                         !.dpc = IF r.kind = "throw" THEN "failed"
                                 ELSE "awaiting"]

ConcIdle == TransportIdle /\ DecoderIdle /\ abort = NoAbort

\* Two retrying calls, or two stream decodes, on one client.
ConcInit ==
  /\ ConcIdle
  /\ decoderBuf = <<>>
  /\ \/ \E r1, r2 \in {-1} \cup (0 .. ConcRetries), d1, d2 \in ConcDelays :
          calls = <<RetryCall(r1, d1), RetryCall(r2, d2)>>
     \/ \E s1, s2 \in ConcStreams :
          calls = <<DecodeCall(s1), DecodeCall(s2)>>

ConcFetchSettles(c) ==
  /\ calls[c].kind = "retry"
  /\ calls[c].pc = "fetching"
  /\ \E o \in ConcOutcomes : calls' = [calls EXCEPT ![c] = Settles(@, o)]
  /\ UNCHANGED <<tvars, dvars, abort, requestRetries, decoderBuf>>

ConcDelayResolves(c) ==
  /\ calls[c].kind = "retry"
  /\ calls[c].pc \in {"delayTry", "delayCatch"}
  /\ calls' = [calls EXCEPT ![c] = TimerFires(@)]
  /\ UNCHANGED <<tvars, dvars, abort, requestRetries, decoderBuf>>

ConcChunkArrives(c) ==
  /\ calls[c].kind = "decode"
  /\ calls[c].dpc = "awaiting"
  /\ calls[c].pending # <<>>
  /\ \E n \in 1 .. Len(calls[c].pending) :
       /\ Len(calls[c].chunks) + 1 < ConcChunks \/ n = Len(calls[c].pending)
       /\ LET chunk == SubSeq(calls[c].pending, 1, n)
              chunkString == DecoderText(decoderBuf, chunk)
              taken == [calls[c] EXCEPT
                          !.pending = SubSeq(@, n + 1, Len(@)),
                          !.chunks = Append(@, chunk)]
          IN /\ calls' = [calls EXCEPT
                            ![c] = ResumeCall(taken, Split(chunkString))]
             /\ decoderBuf' = Retained(decoderBuf \o chunk)
  /\ UNCHANGED <<tvars, dvars, abort, requestRetries>>

ConcNextRequested(c) ==
  /\ calls[c].kind = "decode"
  /\ calls[c].dpc = "yielded"
  /\ calls' = [calls EXCEPT ![c] = ResumeCall(@, calls[c].chunkLines)]
  /\ UNCHANGED <<tvars, dvars, abort, requestRetries, decoderBuf>>

ConcStreamCloses(c) ==
  /\ calls[c].kind = "decode"
  /\ calls[c].dpc = "awaiting"
  /\ calls[c].pending = <<>>
  /\ calls' = [calls EXCEPT ![c].dpc = "done"]
  /\ UNCHANGED <<tvars, dvars, abort, requestRetries, decoderBuf>>

ConcNext ==
  \/ \E c \in Calls : ConcFetchSettles(c)
  \/ \E c \in Calls : ConcDelayResolves(c)
  \/ \E c \in Calls : ConcChunkArrives(c)
  \/ \E c \in Calls : ConcNextRequested(c)
  \/ \E c \in Calls : ConcStreamCloses(c)

SpecConcurrent == ConcInit /\ [][ConcNext]_vars

(***************************************************************************)
(* Properties of the retrying transport.                                   *)
(***************************************************************************)
\* The retriable statuses as the specification lists them.
RetriableSet == {429, 500, 502, 503, 504}

\* Attempt i failed retriably: fetch threw, or answered a retriable status.
FailedRetriably(i) == log[i] = Threw \/ log[i] \in RetriableSet

AllFailedRetriably == \A i \in 1 .. Len(log) : FailedRetriably(i)

Terminal == pc \in {"returned", "thrown"}

RECURSIVE Pow(_, _)
Pow(b, n) == IF n <= 0 THEN 1 ELSE b * Pow(b, n - 1)

\* The geometric sequence d, 2d, 4d, ... of length k.
Geometric(d, k) == [i \in 1 .. k |-> d * Pow(2, i - 1)]

\* C1: with a retry budget N >= 0, a call all of whose attempts failed
\* retriably has made exactly N+1 fetch attempts when it ends, and never more
\* than N+1 before that.
C1_ExactlyNPlusOneAttempts ==
  (maxRetries >= 0 /\ AllFailedRetriably) =>
    /\ attempts <= maxRetries + 1
    /\ Terminal => attempts = maxRetries + 1

C1_Witness ==
  /\ Terminal
  /\ maxRetries = 3
  /\ attempts = 4
  /\ AllFailedRetriably
  /\ \E i \in 1 .. Len(log) : log[i] = Threw
  /\ \E i \in 1 .. Len(log) : log[i] \in RetriableSet

\* C2: the k-th backoff wait of a call lasts initialDelay * 2^(k-1), and a
\* wait is pending after every retriable failure of either kind that left
\* retries: no jitter, no cap.
C2_WaitsGeometric ==
  /\ waits = Geometric(initialDelay, Len(waits))
  /\ (pc \in {"delayTry", "delayCatch"}) =>
       /\ Len(waits) = attempts
       /\ waits[Len(waits)] = retryDelay
  /\ pc = "delayTry" => log[attempts] \in RetriableSet
  /\ pc = "delayCatch" => log[attempts] = Threw

C2_Witness ==
  /\ waits = <<100, 200, 400>>
  /\ log = <<Threw, 503, Threw>>
  /\ pc = "delayCatch"

\* C3: a response whose status is outside the retriable set is the call's
\* result at whatever attempt it arrives and whatever retries remain, and
\* nothing happens after it: no further attempt, no further wait.  At the
\* first attempt that is one attempt and no wait.
C3_NonRetriableReturnedAtOnce ==
  /\ [](  (last.kind = "response" /\ last.status \notin RetriableSet) =>
            /\ pc = "returned"
            /\ result = last
            /\ attempts = last.id
            /\ Len(waits) = attempts - 1
            /\ (Len(log) = 1 => attempts = 1 /\ waits = <<>>) )
  /\ [][ pc = "returned" =>
           /\ pc' = "returned"
           /\ attempts' = attempts
           /\ waits' = waits
           /\ result' = result ]_vars

C3_Witness ==
  /\ pc = "returned"
  /\ log = <<503, Threw, 404>>
  /\ retries = 1
  /\ result.status = 404
  /\ result.id = 3

\* C4: k retriable failures followed by a non-retriable response, k within
\* the budget, end the call with that response after k+1 attempts and the k
\* waits initialDelay, 2*initialDelay, ...
C4_RecoversAfterKFailures ==
  \A k \in 0 .. MaxRetries + 1 :
    ( /\ k <= maxRetries
      /\ Len(log) = k + 1
      /\ \A i \in 1 .. k : FailedRetriably(i)
      /\ log[k + 1] # Threw /\ log[k + 1] \notin RetriableSet ) =>
        /\ pc = "returned"
        /\ result = last
        /\ result.status = log[k + 1]
        /\ attempts = k + 1
        /\ waits = Geometric(initialDelay, k)

\* 503, 503, 200 with maxRetries = 3 and initialDelay = 100.
C4_Witness ==
  /\ maxRetries = 3
  /\ initialDelay = 100
  /\ log = <<503, 503, 200>>
  /\ pc = "returned"
  /\ result.status = 200
  /\ attempts = 3
  /\ waits = <<100, 200>>

\* C5: a retriable failure with no retries remaining ends the call with the
\* outcome of that last attempt: its error is thrown if it threw, its
\* response is returned if it answered a retriable status.  (The latest
\* attempt was made with the current `retries` exactly when
\* maxRetries - retries = attempts - 1.)
C5_LastOutcomeSurfaces ==
  ( /\ attempts > 0
    /\ FailedRetriably(attempts)
    /\ retries <= 0
    /\ maxRetries - retries = attempts - 1 ) =>
      /\ Terminal
      /\ result = last
      /\ result.id = attempts
      /\ log[attempts] = Threw => pc = "thrown" /\ result.kind = "error"
      /\ log[attempts] # Threw =>
           pc = "returned" /\ result.kind = "response"
                           /\ result.status = log[attempts]

C5_Witness ==
  /\ pc = "thrown"
  /\ maxRetries = 2
  /\ log = <<Threw, 503, Threw>>
  /\ result.kind = "error"
  /\ result.id = 3

C5_WitnessStatus ==
  /\ pc = "returned"
  /\ maxRetries = 2
  /\ log = <<Threw, 503, 502>>
  /\ result.status = 502

\* Every attempt so far answered a retriable status.
AllRetriableStatus == \A i \in 1 .. Len(log) : log[i] \in RetriableSet

\* C6: a public call all of whose attempts answered a retriable status ends
\* with an error at the caller, not with a result.
C6_ExhaustedStatusIsError ==
  ( /\ entry \in PublicOps
    /\ callerPc \in {"resolved", "rejected"}
    /\ AllRetriableStatus ) => callerPc = "rejected"

\* The retry budget of a call given `r`: a value below 0 allows no retry.
Budget(r) == IF r > 0 THEN r ELSE 0

\* C18: both failure kinds draw on one counter, and an error thrown by a
\* recursive call is never caught and retried again by a call that made it:
\* whatever the retries value r, negative ones included, and however thrown
\* errors and retriable statuses mix, a call makes at most max(r,0)+1
\* attempts and max(r,0) waits; each wait that is over has taken one from the
\* counter; and a thrown call stays thrown.
C18_OneSharedBudget ==
  /\ [](attempts <= Budget(maxRetries) + 1)
  /\ [](Len(waits) <= Budget(maxRetries))
  /\ [](Len(frames) = maxRetries - retries)
  /\ [](Len(waits) = Len(frames)
            + (IF pc \in {"delayTry", "delayCatch"} THEN 1 ELSE 0))
  /\ [][ pc = "thrown" =>
           pc' = "thrown" /\ attempts' = attempts /\ waits' = waits ]_vars

\* A status, a thrown error and a status again use up a budget of 2.
C18_Witness ==
  /\ maxRetries = 2
  /\ log = <<503, Threw, 429>>
  /\ pc = "returned"
  /\ Len(waits) = 2
  /\ retries = 0

\* A negative budget: one attempt, no wait.
C18_WitnessNegative ==
  /\ maxRetries = -1
  /\ attempts = 1
  /\ waits = <<>>
  /\ pc = "thrown"

\* The last status failure's error is thrown after a retry made for a status.
C18_WitnessThrownInRecursion ==
  /\ maxRetries = 1
  /\ log = <<503, Threw>>
  /\ pc = "thrown"
  /\ frames # <<>>
  /\ frames[1].site = "try"

Waiting == pc \in {"delayTry", "delayCatch"}

\* C19: attempts and waits alternate.  While an attempt is in flight, as
\* many waits as attempts are over; a wait is pending only after an attempt
\* that failed retriably with retries remaining; a call that has ended made
\* one wait less than attempts.  An attempt that settles leads to a wait or
\* to the end, a wait leads to the next attempt, and nothing follows the end.
C19_AttemptsAndWaitsAlternate ==
  /\ [](pc = "fetching" => Len(waits) = attempts)
  /\ [](Waiting =>
          /\ attempts >= 1
          /\ Len(waits) = attempts
          /\ FailedRetriably(attempts)
          /\ retries > 0)
  /\ [](Terminal => Len(waits) = attempts - 1)
  /\ [][ /\ attempts' # attempts =>
              /\ pc = "fetching"
              /\ attempts' = attempts + 1
              /\ pc' # "fetching"
         /\ waits' # waits =>
              /\ pc = "fetching"
              /\ pc' \in {"delayTry", "delayCatch"}
              /\ Len(waits') = Len(waits) + 1
         /\ Waiting =>
              /\ pc' \in {pc, "fetching"}
              /\ attempts' = attempts
              /\ waits' = waits
         /\ Terminal => pc' = pc ]_vars

C19_Witness ==
  /\ pc = "fetching"
  /\ log = <<Threw, 429>>
  /\ attempts = 2
  /\ Len(waits) = 2

\* C20: a call whose fetch attempts and backoff waits all complete ends, and
\* ends once: it returns one response or throws one error, which then stays
\* as it is.  It cannot retry forever because a new attempt is only made
\* with retries above 0 and takes one from them.
C20_EndsExactlyOnce ==
  /\ <>Terminal
  /\ [](Terminal =>
          /\ pc = "returned" => result.kind = "response"
          /\ pc = "thrown" => result.kind = "error"
          /\ result = last)
  /\ [](~Terminal => result = NoOutcome)
  /\ [][ Terminal => pc' = pc /\ result' = result ]_vars
  /\ [][ (pc # "fetching" /\ pc' = "fetching") =>
           retries > 0 /\ retries' = retries - 1 ]_vars

C20_Witness ==
  /\ Terminal
  /\ maxRetries = 3
  /\ attempts = 4
  /\ result = last
  /\ result.kind = "response"
  /\ result.status = 504

(***************************************************************************)
(* Properties of the stream decoder.                                       *)
(***************************************************************************)
DecoderTerminal == dpc \in {"done", "failed"}

\* The text of the whole byte stream.
CumulativeText == TextDecode(content)

\* The delivery is one of exactly two chunks: both have been read, or the
\* first has been read and the rest of the content is the second.
TwoChunks ==
  \/ chunksRead = 2 /\ pending = <<>>
  \/ chunksRead = 1 /\ pending # <<>>

\* C7: a content delivered as two chunks, wherever the split falls, yields
\* the same events and the same clean or failed ending as the same content
\* delivered as a single chunk.
C7_SplitInvariant ==
  (DecoderTerminal /\ TwoChunks) =>
    [events |-> events, ending |-> dpc] = DecodeSingle(content)

\* The payload of a line under the framing rule: what follows the 5
\* characters 'data:', without surrounding white space.
FramePayload(line) == Trim(Substring(line, Len(DataPrefix)))

\* The line is a frame that carries an event.
IsEventFrame(line) ==
  /\ StartsWith(line, DataPrefix)
  /\ FramePayload(line) # DONE
  /\ JSONParses(FramePayload(line))

\* The well-formed payloads of the lines, in order.
RECURSIVE WellFormedPayloads(_)
WellFormedPayloads(lines) ==
  IF lines = <<>> THEN <<>>
  ELSE IF IsEventFrame(Head(lines))
    THEN <<JSONValue(FramePayload(Head(lines)))>> \o WellFormedPayloads(Tail(lines))
    ELSE WellFormedPayloads(Tail(lines))

\* C8: when the stream has ended, the events are exactly the well-formed
\* 'data:' payloads of the cumulative byte stream, in order, '[DONE]'
\* excluded.
C8_EventsAreThePayloads ==
  dpc = "done" => events = WellFormedPayloads(Split(CumulativeText))

\* C9: once a frame with the payload '[DONE]' has been observed, no further
\* event is emitted.
C9_NothingAfterSentinel ==
  sentinelAt # -1 => Len(events) = sentinelAt

SentinelLine == DataPrefix \o <<SP>> \o DONE

\* A line of the wire format that is no sentinel: 'data: ' and a JSON
\* payload, or a line without the prefix.
IsWireLine(line) ==
  \/ ~StartsWith(line, DataPrefix)
  \/ /\ StartsWith(line, DataPrefix \o <<SP>>)
     /\ IsEventFrame(line)

\* The stream is lines of the wire format and then the line 'data: [DONE]'.
EndsWithSentinel ==
  LET lines == Split(CumulativeText)
      n == Len(lines)
  IN /\ n >= 2
     /\ lines[n] = <<>>
     /\ lines[n - 1] = SentinelLine
     /\ \A i \in 1 .. n - 2 : IsWireLine(lines[i])

\* C10: a stream that ends with the line 'data: [DONE]' yields one event per
\* data frame before it, none for the sentinel, and ends without an error.
C10_SentinelEndsCleanly ==
  EndsWithSentinel =>
    /\ dpc # "failed"
    /\ dpc = "done" =>
         events = WellFormedPayloads(Split(CumulativeText))

\* A stream that arrives as one chunk does end as C10 says, and the
\* generator's run over one chunk is what DecodeSingle computes.
SingleChunk == chunksRead <= 1 /\ pending = <<>>

SingleChunkSentinelEndsCleanly == SingleChunk => C10_SentinelEndsCleanly

SingleChunkIsDecodeSingle ==
  (DecoderTerminal /\ SingleChunk) =>
    [events |-> events, ending |-> dpc] = DecodeSingle(content)

\* C11: a line is a frame exactly when it begins with 'data:', and the
\* payload the decoder takes from it is all that follows these 5 characters,
\* without surrounding white space: 'data:X', 'data: X' and 'data:   X  '
\* carry X whole.  So a stream of one such frame yields its payload.
C11_FramingRule ==
  (SingleChunk /\ DecoderTerminal) =>
    LET lines == Split(CumulativeText)
    IN /\ \A i \in 1 .. Len(lines) :
            /\ LineOutcome(lines[i]).kind # "skip"
                  <=> StartsWith(lines[i], DataPrefix)
            /\ StartsWith(lines[i], DataPrefix) =>
                  ChunkData(lines[i]) = FramePayload(lines[i])
       /\ (Len(lines) = 2 /\ lines[2] = <<>> /\ IsEventFrame(lines[1])) =>
            /\ dpc = "done"
            /\ events = <<JSONValue(FramePayload(lines[1]))>>

\* The text of the chunk that arrives in the step being taken, if one does.
TextRun == TextDecode(SubSeq(pending, 1, Len(pending) - Len(pending')))

\* The lines the generator runs over in the step being taken: those left of
\* the current chunk after a yield, or those of the chunk that arrives, whose
\* text is `text`.
LinesRun(text) == IF dpc = "yielded" THEN chunkLines ELSE Split(text)

\* The text handed to JSON.parse for line k of the lines, if there is one.
DataOf(lines, k) == IF k = 0 THEN <<>> ELSE ChunkData(lines[k])

\* The step resumes the generator (it is not the end of the byte stream).
ResumeStep == dpc = "yielded" \/ (dpc = "awaiting" /\ pending' # pending)

\* The line is a 'data:' frame whose payload is not the sentinel.
IsPayloadFrame(line) ==
  StartsWith(line, DataPrefix) /\ ChunkData(line) # DONE

\* Index of the first payload frame of the lines at or after i, or 0.
RECURSIVE FirstPayloadFrame(_, _)
FirstPayloadFrame(lines, i) ==
  IF i > Len(lines) THEN 0
  ELSE IF IsPayloadFrame(lines[i]) THEN i ELSE FirstPayloadFrame(lines, i + 1)

C16_EventsInStreamOrder ==
  /\ [][ ResumeStep =>
           \A text \in {TextRun} : \A lines \in {LinesRun(text)} :
           \A k \in {FirstPayloadFrame(lines, 1)} :
           \A chunkData \in {DataOf(lines, k)} :
              /\ pending' = SubSeq(pending, Len(pending) - Len(pending') + 1,
                                   Len(pending))
              /\ chunksRead' >= chunksRead
              /\ \/ /\ events' = events
                    /\ chunkLines' = <<>>
                 \/ /\ k # 0
                    /\ events' = Append(events, JSONValue(chunkData))
                    /\ chunkLines' = SubSeq(lines, k + 1, Len(lines)) ]_vars
  /\ [][ ~ResumeStep => events' = events ]_vars

\* Two different events, the second from a later chunk than the first.
C16_Witness ==
  /\ dpc = "done"
  /\ chunksRead = 2
  /\ Len(events) = 2
  /\ events[1] = <<"1">>
  /\ events[2] # events[1]

\* Two different events from two lines of one chunk.
C16_WitnessOneChunk ==
  /\ dpc = "done"
  /\ chunksRead = 1
  /\ Len(events) = 2
  /\ events[1] # events[2]

(***************************************************************************)
(* Independence of concurrent calls.                                       *)
(***************************************************************************)
\* _fetchWithRetry(url, options, r, d) run alone against the outcomes `log`
\* of its attempts, as the recursive function it is: the state it is in
\* when these outcomes are used up (waiting, if it has not ended).
RECURSIVE RetryAlone(_, _, _)
RetryAlone(r, d, outcomes) ==
  IF outcomes = <<>>
    THEN [pc |-> "fetching", retries |-> r, retryDelay |-> d,
          attempts |-> 0, waits |-> <<>>]
    ELSE LET o == Head(outcomes)
             ends == IF o = Threw THEN r <= 0
                     ELSE (o >= 200 /\ o <= 299) \/ o \notin RetriableSet \/ r <= 0
         IN IF ends
              THEN [pc |-> IF o = Threw THEN "thrown" ELSE "returned",
                    retries |-> r, retryDelay |-> d,
                    attempts |-> 1, waits |-> <<>>]
              ELSE IF Tail(outcomes) = <<>>
                THEN [pc |-> IF o = Threw THEN "delayCatch" ELSE "delayTry",
                      retries |-> r, retryDelay |-> d,
                      attempts |-> 1, waits |-> <<d>>]
                ELSE LET inner == RetryAlone(r - 1, d * 2, Tail(outcomes))
                     IN [inner EXCEPT !.attempts = @ + 1,
                                      !.waits = <<d>> \o @]

\* The decoding loop run alone, with a decoder of its own, over the chunks
\* `chunks`; buf: what that decoder holds back.
RECURSIVE DecodeAlone(_, _)
DecodeAlone(chunks, buf) ==
  IF chunks = <<>> THEN [events |-> <<>>, ending |-> "done"]
  ELSE LET c == CollectLines(Split(DecoderText(buf, Head(chunks))))
       IN IF c.ending = "failed" THEN c
          ELSE LET rest == DecodeAlone(Tail(chunks),
                                       Retained(buf \o Head(chunks)))
               IN [events |-> c.events \o rest.events,
                   ending |-> rest.ending]

IsPrefix(s, t) == Len(s) <= Len(t) /\ s = SubSeq(t, 1, Len(s))

\* The retrying call is where it is when it runs alone with its outcomes.
RetriesAsAlone(call) ==
  LET alone == RetryAlone(call.maxRetries, call.initialDelay, call.log)
  IN /\ call.attempts = alone.attempts
     /\ call.waits = alone.waits
     /\ IF call.pc = "fetching" /\ call.log # <<>>
          THEN /\ alone.pc \in {"delayTry", "delayCatch"}
               /\ call.retries = alone.retries - 1
               /\ call.retryDelay = alone.retryDelay * 2
          ELSE /\ call.pc = alone.pc
               /\ call.retries = alone.retries
               /\ call.retryDelay = alone.retryDelay

\* The stream decode has emitted what it emits when it runs alone over its
\* chunks: all of it when it waits for a chunk or has ended, the first of it
\* when it is suspended at a yield.
DecodesAsAlone(call) ==
  LET alone == DecodeAlone(call.chunks, <<>>)
  IN /\ IsPrefix(call.events, alone.events)
     /\ call.dpc = "awaiting" =>
          call.events = alone.events /\ alone.ending = "done"
     /\ call.dpc \in {"done", "failed"} =>
          call.events = alone.events /\ call.dpc = alone.ending

\* C17: two retrying calls, or two stream decodes on the client's one
\* TextDecoder, interleaved in any order: the attempts, remaining retries,
\* delays and events of each are those of the call run alone on its own
\* inputs, and a step of one call leaves the state of the other as it is.
C17_CallsAreIndependent ==
  /\ [](\A c \in DOMAIN calls :
          IF calls[c].kind = "retry" THEN RetriesAsAlone(calls[c])
          ELSE DecodesAsAlone(calls[c]))
  /\ [][ \A c \in DOMAIN calls :
           calls'[c] # calls[c] =>
             \A other \in DOMAIN calls \ {c} : calls'[other] = calls[other] ]_vars

\* Both decodes are suspended at a yield, one of them in its second chunk.
C17_Witness ==
  /\ calls # <<>>
  /\ calls[1].kind = "decode"
  /\ calls[1].dpc = "yielded"
  /\ calls[2].dpc = "yielded"
  /\ Len(calls[1].chunks) = 1
  /\ Len(calls[2].chunks) = 2
  /\ calls[2].events = << <<"1">>, <<"2">> >>
  /\ calls[1].events # <<>>
  /\ calls[1].events[1] # <<"1">>

\* One decode has failed on a chunk that ends inside a two-byte character,
\* and the other has then read its second chunk and emitted its event.
C17_WitnessCutCharacter ==
  /\ calls # <<>>
  /\ calls[1].kind = "decode"
  /\ calls[1].dpc = "failed"
  /\ calls[1].chunks[1][Len(calls[1].chunks[1])] = "C3"
  /\ calls[2].dpc = "yielded"
  /\ Len(calls[2].chunks) = 2
  /\ calls[2].events = << <<"1">>, <<"2">> >>

\* Both retrying calls are under way, with different delays and retries.
C17_WitnessRetrying ==
  /\ calls # <<>>
  /\ calls[1].kind = "retry"
  /\ calls[1].pc = "delayTry"
  /\ calls[2].pc = "fetching"
  /\ calls[2].attempts = 1
  /\ calls[1].retryDelay # calls[2].retryDelay
  /\ calls[1].retries # calls[2].retries

(***************************************************************************)
(* Cancellation.                                                           *)
(***************************************************************************)
\* C13: after the cancellation no further fetch attempt is issued and no
\* further backoff wait is started, even when retries remain, and the call
\* ends with the cancellation error.
C13_CancellationStops ==
  abort # NoAbort =>
    /\ IssuedAttempts = abort.issued
    /\ Len(waits) = abort.waits
    /\ Terminal => pc = "thrown"

(***************************************************************************)
(* Properties of the request layer.                                        *)
(***************************************************************************)
\* C14: what chatStream iterates over is the live byte stream of the
\* response, never a body consumed as buffered JSON; what chat, embeddings
\* and listModels deliver is the buffered JSON.
C14_StreamIsLiveBytes ==
  /\ (entry = "chatStream" /\ callerPc # "pending" /\ pc = "returned") =>
       callerResult.kind = "stream"
  /\ (entry \in PublicOps \ {"chatStream"} /\ callerPc = "resolved") =>
       callerResult.kind = "json"

\* The waits of the default policy.
DefaultWaits == <<500, 1000, 2000>>

\* C15: every public operation runs with 3 retries, a 500 ms initial delay
\* and the factor 2: at most 4 attempts, separated by waits of 500, 1000 and
\* 2000 ms, all of them made when every attempt fails retriably; and the
\* retry count given to _request is the one _fetchWithRetry starts with.
C15_DefaultPolicy ==
  /\ entry \in PublicOps =>
       /\ requestRetries = 3
       /\ maxRetries = 3
       /\ initialDelay = 500
       /\ attempts <= 4
       /\ Len(waits) <= 3
       /\ waits = SubSeq(DefaultWaits, 1, Len(waits))
       /\ (Terminal /\ AllFailedRetriably) =>
            attempts = 4 /\ waits = DefaultWaits
  /\ entry \in RequestEntries =>
       /\ maxRetries = requestRetries
       /\ initialDelay = 500

C15_Witness ==
  /\ entry = "chatStream"
  /\ Terminal
  /\ AllFailedRetriably
  /\ attempts = 4
  /\ waits = DefaultWaits

C15_WitnessThreaded ==
  /\ entry = "_request"
  /\ requestRetries = 1
  /\ Terminal
  /\ log = <<503, Threw>>

Init == TransportInit /\ DecoderIdle /\ NotAborted

Next ==
  \/ FetchResolves
  \/ FetchRejects
  \/ DelayResolvesTry
  \/ DelayResolvesCatch
  \/ RequestResumes
  \/ StreamIterates

Spec == Init /\ [][Next]_vars

\* The same program with a caller that may abort the signal of its call.
NextCancel ==
  \/ FetchResolves
  \/ FetchRejects
  \/ DelayResolvesTry
  \/ DelayResolvesCatch
  \/ RequestResumes
  \/ StreamIterates
  \/ Abort

SpecCancel == Init /\ [][NextCancel]_vars

\* Direct calls of _fetchWithRetry whose fetch attempts and backoff waits
\* all complete: a pending fetch settles, a pending timer fires.
InitTransport == Init /\ entry = "_fetchWithRetry"

NextTransport ==
  \/ FetchResolves
  \/ FetchRejects
  \/ DelayResolvesTry
  \/ DelayResolvesCatch

SpecLive ==
  /\ InitTransport
  /\ [][NextTransport]_vars
  /\ WF_vars(FetchResolves \/ FetchRejects)
  /\ WF_vars(DelayResolvesTry)
  /\ WF_vars(DelayResolvesCatch)

====
